---------------------------- MODULE Spec2Model ----------------------------
(***************************************************************************)
(* Model of AssemblyAI-Video-to-SRT.py: create_speaker_srt (audio          *)
(* extraction, transcription, temporary-file cleanup, subtitle-block       *)
(* segmentation), format_srt_time, and the start button of App             *)
(* (start_processing_thread, run_transcription).                           *)
(*                                                                         *)
(* Times are integer milliseconds, as the transcription service returns    *)
(* them.  Python floats are IEEE-754 doubles; they are modelled bit by bit *)
(* (integer part + binary fraction, 53 significant bits, round to nearest  *)
(* even) because format_srt_time truncates a float product.                *)
(***************************************************************************)
EXTENDS Integers, Sequences, FiniteSets, TLC

\* ------------------------------------------------------------------ bounds

\* Longest transcript (number of words) the model draws.
MaxWords == 3

\* Longest transcript drawn when the job runs under the user interface.
MaxUiWords == 1

\* Most background threads alive at once (running or in their finally).
MaxThreads == 2

\* ------------------------------------------------------- program constants

\* MAX_PAUSE_S = 0.7 (seconds).  The code compares (gap_ms / 1000) >= 0.7;
\* gap_ms / 1000 is correctly rounded and 700 / 1000 is the double 0.7 itself,
\* so for integer gaps the comparison is gap_ms >= 700.
MAX_PAUSE_MS == 700

MAX_CHARS == 80

\* MAX_DURATION_S = 7 (seconds); (span_ms / 1000) >= 7 iff span_ms >= 7000.
MAX_DURATION_S == 7

\* Significant bits of a Python float (IEEE-754 binary64).
FLOAT_MANT_DIG == 53

\* ------------------------------------------------------------ input domain

RECURSIVE Rep(_, _)
Rep(s, n) == IF n = 0 THEN "" ELSE s \o Rep(s, n - 1)

\* Word texts: three of the first join to exactly 80 characters
\* (26 + 1 + 26 + 1 + 26), two of the second to 81 (40 + 1 + 40), and the
\* third is longer than 80 on its own.
WordTexts == {Rep("a", 26), Rep("b", 40), Rep("c", 81)}

\* Millisecond timestamps: gaps of 0, 700, 6300 and 7000 ms (and negative
\* ones, for words that overlap), spans of 0, 700, 6300 and 7000 ms.
TimeVals == {0, 6300, 7000}

\* Word objects of the transcript (text, start, end); end >= start >= 0.
Words == {w \in [text : WordTexts, start : TimeVals, end : TimeVals] :
              w.start <= w.end}

\* Transcripts: word sequences of at most n words with non-decreasing start
\* (the order the transcription service returns them in).
RECURSIVE WordSeqs(_)
WordSeqs(n) ==
    IF n = 0 THEN {<<>>}
    ELSE LET shorter == WordSeqs(n - 1)
         IN  shorter \cup
             UNION {{Append(s, w) : w \in {v \in Words :
                                    s = <<>> \/ s[Len(s)].start <= v.start}} :
                    s \in {t \in shorter : Len(t) = n - 1}}

Transcripts == WordSeqs(MaxWords)

\* ------------------------------------------------------ Python float model

\* A float x >= 0 is [ip |-> integer part, fr |-> fraction bits, most
\* significant first]: x = ip + sum of fr[j] / 2^j.  Long bit strings are
\* worked on eight bits at a time.

RECURSIVE BitLen(_)
BitLen(n) == IF n = 0 THEN 0 ELSE 1 + BitLen(n \div 2)

RECURSIVE Pow2(_)
Pow2(n) == IF n = 0 THEN 1 ELSE 2 * Pow2(n - 1)

RECURSIVE LeadZeros(_)
LeadZeros(bits) ==
    IF bits = <<>> \/ bits[1] = 1 THEN 0 ELSE 1 + LeadZeros(Tail(bits))

\* The number a short bit string denotes, and the c-bit string of v < 2^c.
RECURSIVE ToInt(_)
ToInt(bits) ==
    IF bits = <<>> THEN 0
    ELSE 2 * ToInt(SubSeq(bits, 1, Len(bits) - 1)) + bits[Len(bits)]

ToBits(v, c) == [j \in 1..c |-> (v \div Pow2(c - j)) % 2]

\* bits + 1 in the last place; carry = 1 when every bit was 1.
IncBits(bits) ==
    LET n     == Len(bits)
        zeros == {j \in 1..n : bits[j] = 0}
    IN  IF zeros = {} THEN [bits |-> [j \in 1..n |-> 0], carry |-> 1]
        ELSE LET p == CHOOSE j \in zeros : \A z \in zeros : z <= j
             IN  [bits |-> [j \in 1..n |-> IF j < p THEN bits[j]
                                           ELSE IF j = p THEN 1 ELSE 0],
                  carry |-> 0]

\* The double nearest to ip + 0.fr (round half to even).
Round53(ip, fr) ==
    LET avail == IF ip > 0 THEN FLOAT_MANT_DIG - BitLen(ip)
                 ELSE FLOAT_MANT_DIG + LeadZeros(fr)
    IN  IF Len(fr) <= avail THEN [ip |-> ip, fr |-> fr]
        ELSE LET keep    == SubSeq(fr, 1, avail)
                 rest    == SubSeq(fr, avail + 1, Len(fr))
                 sticky  == \E j \in 2..Len(rest) : rest[j] = 1
                 lastOdd == IF avail > 0 THEN keep[avail] = 1 ELSE ip % 2 = 1
                 up      == rest[1] = 1 /\ (sticky \/ lastOdd)
                 inc     == IncBits(keep)
             IN  IF up THEN [ip |-> ip + inc.carry, fr |-> inc.bits]
                 ELSE [ip |-> ip, fr |-> keep]

\* Binary long division of rem / d (rem < d), eight bits a step: the first
\* 8 * steps fraction bits, then a sticky bit when a remainder is left.
RECURSIVE DivBits(_, _, _)
DivBits(rem, d, steps) ==
    IF rem = 0 THEN <<>>
    ELSE IF steps = 0 THEN <<1>>
    ELSE ToBits((rem * 256) \div d, 8) \o DivBits((rem * 256) % d, d, steps - 1)

\* Python's m / d for ints m >= 0, d > 0: the correctly rounded quotient.
\* A quotient below 1 starts with fewer than BitLen(d) zero bits, so
\* FLOAT_MANT_DIG + BitLen(d) + 1 fraction bits reach past the rounding bit.
TrueDiv(m, d) ==
    Round53(m \div d,
            DivBits(m % d, d, (FLOAT_MANT_DIG + BitLen(d)) \div 8 + 1))

\* int(x) for a float x >= 0: truncation.
PyInt(x) == x.ip

\* x - n for a float x and an int n <= x with x - n < 1 (exact).
FloatSubInt(x, n) == [ip |-> x.ip - n, fr |-> x.fr]

\* bits * k as a binary number, eight bits a step from the low end: the low
\* Len(bits) bits of the product and the carry above them.
RECURSIVE MulBits(_, _)
MulBits(bits, k) ==
    IF bits = <<>> THEN [bits |-> <<>>, carry |-> 0]
    ELSE LET n  == Len(bits)
             c  == IF n < 8 THEN n ELSE 8
             lo == MulBits(SubSeq(bits, c + 1, n), k)
             t  == ToInt(SubSeq(bits, 1, c)) * k + lo.carry
         IN  [bits  |-> ToBits(t % Pow2(c), c) \o lo.bits,
              carry |-> t \div Pow2(c)]

\* x * k for a float x and an int k: the exact product, rounded.
FloatMulInt(x, k) ==
    LET p == MulBits(x.fr, k)
    IN  Round53(x.ip * k + p.carry, p.bits)

\* ---------------------------------------------------------- format_srt_time

\* f"{n:02d}" and f"{n:03d}"
Pad2(n) == IF n < 10 THEN "0" \o ToString(n) ELSE ToString(n)

Pad3(n) == IF n < 10 THEN "00" \o ToString(n)
           ELSE IF n < 100 THEN "0" \o ToString(n) ELSE ToString(n)

format_srt_time(seconds) ==
    LET millisec == PyInt(FloatMulInt(FloatSubInt(seconds, PyInt(seconds)), 1000))
        secs     == PyInt(seconds)
        minutes  == secs \div 60
        hours    == minutes \div 60
    IN  Pad2(hours) \o ":" \o Pad2(minutes % 60) \o ":" \o Pad2(secs % 60)
            \o "," \o Pad3(millisec)

\* ------------------------------------------------------------ segmentation

\* " ".join(w.text for w in ws)
RECURSIVE JoinText(_)
JoinText(ws) ==
    IF ws = <<>> THEN ""
    ELSE IF Len(ws) = 1 THEN ws[1].text
    ELSE ws[1].text \o " " \o JoinText(Tail(ws))

\* Variant: the pause test with > for >=.
PauseTrigger_Strict(block, word) ==
    word.start - block[Len(block)].end > MAX_PAUSE_MS

PauseTrigger(block, word) ==
    word.start - block[Len(block)].end >= MAX_PAUSE_MS

\* Variants: the length test without the separating space, and with >= for >.
LengthTrigger_NoSeparator(block, word) ==
    Len(JoinText(block)) + Len(word.text) > MAX_CHARS

LengthTrigger_AtLimit(block, word) ==
    Len(JoinText(block)) + Len(word.text) + 1 >= MAX_CHARS

LengthTrigger(block, word) ==
    Len(JoinText(block)) + Len(word.text) + 1 > MAX_CHARS

\* Variant: the duration test with > for >=.
DurationTrigger_Strict(block, word) ==
    word.end - block[1].start > MAX_DURATION_S * 1000

DurationTrigger(block, word) ==
    word.end - block[1].start >= MAX_DURATION_S * 1000

should_start_new_block(block, word) ==
    PauseTrigger(block, word) \/ LengthTrigger(block, word)
        \/ DurationTrigger(block, word)

\* Variants: the block is not reset when a new one starts (the word is
\* appended to the old words), or is reset to empty (the word is dropped).
NextBlockWords_NoReset(block, word) == Append(block, word)

NextBlockWords_DropWord(block, word) ==
    IF should_start_new_block(block, word) THEN <<>>
    ELSE Append(block, word)

\* current_block_words after the iteration for word (lines 198 and 200).
NextBlockWords(block, word) ==
    IF should_start_new_block(block, word) THEN <<word>>
    ELSE Append(block, word)

\* format_srt_time(ms / 1000) for each timestamp a word can carry (lines
\* 189-190, 203-204), tabulated.
SrtTimeOf == [ms \in TimeVals |-> format_srt_time(TrueDiv(ms, 1000))]

\* Variant: the index written is zero-based.
SrtBlock_ZeroBased(counter, block) ==
    [index      |-> counter - 1,
     start_time |-> SrtTimeOf[block[1].start],
     end_time   |-> SrtTimeOf[block[Len(block)].end],
     text       |-> JoinText(block)]

\* The three lines written for one block.
SrtBlock(counter, block) ==
    [index      |-> counter,
     start_time |-> SrtTimeOf[block[1].start],
     end_time   |-> SrtTimeOf[block[Len(block)].end],
     text       |-> JoinText(block)]

\* Variant: the failure branches log but do not return.
AfterTranscribe_NoReturn(result) == "generate"

\* Where create_speaker_srt goes after transcriber.transcribe: on to step 3,
\* or out through a return (error status, lines 129-132; exception, 141-144).
AfterTranscribe(result) == IF result = "ok" THEN "generate" ELSE "done"

\* ------------------------------------------------------------------- state

VARIABLES
    pc,                   \* position in create_speaker_srt
    outcome,              \* how the run ended ("none" while running)
    ffmpeg_invoked,       \* subprocess.run started the extraction tool
    audio_exists,         \* os.path.exists(audio_path)
    completed,            \* steps logged complete (lines 98, 139, 213)
    words,                \* transcript.words
    srt_opened,           \* open(srt_path, 'w') was called
    srt_file,             \* blocks written to the SRT file, in order
    emitted,              \* history: the word group behind each written block
    srt_counter,
    current_block_words,
    i,                    \* 1-based index of the next word of the loop
    blocks_reported,      \* the count logged at line 212 (-1: not logged)
    success_shown,        \* messagebox.showinfo("Success", ...) was called
    start_button,         \* state of App.start_button: "normal" or "disabled"
    progress_shown,       \* App.progress_bar is in the grid
    progress_running,     \* App.progress_bar is animating
    jobs,                 \* threads inside create_speaker_srt
    fin_stop,             \* threads in the finally, before progress_bar.stop()
    fin_forget            \* threads in the finally, before grid_forget()

uiVars == <<start_button, progress_shown, progress_running, jobs, fin_stop,
            fin_forget>>

vars == <<pc, outcome, ffmpeg_invoked, audio_exists, completed, words,
          start_button, progress_shown, progress_running, jobs, fin_stop,
          fin_forget, srt_opened,
          srt_file, emitted, srt_counter, current_block_words, i,
          blocks_reported, success_shown>>

segVars == <<words, srt_opened, srt_file, emitted, srt_counter,
             current_block_words, i, blocks_reported, success_shown>>

\* The locals of create_speaker_srt on entry.
JobLocalsInit ==
    /\ ffmpeg_invoked = FALSE
    /\ completed = {}
    /\ words = <<>>
    /\ srt_opened = FALSE
    /\ srt_file = <<>>
    /\ emitted = <<>>
    /\ srt_counter = 0
    /\ current_block_words = <<>>
    /\ i = 0
    /\ blocks_reported = -1
    /\ success_shown = FALSE

\* create_speaker_srt is entered by the one background thread, which
\* start_processing_thread started after disabling the button.
Init ==
    /\ pc = "start"
    /\ outcome = "none"
    /\ audio_exists = FALSE
    /\ JobLocalsInit
    /\ start_button = "disabled"
    /\ progress_shown = TRUE
    /\ progress_running = TRUE
    /\ jobs = 1
    /\ fin_stop = 0
    /\ fin_forget = 0

\* Lines 31-43: the pre-check of the input video.
CheckVideo ==
    /\ pc = "start"
    /\ UNCHANGED uiVars
    /\ \E video_exists \in BOOLEAN :
          IF video_exists
          THEN pc' = "extract" /\ outcome' = outcome
          ELSE pc' = "done" /\ outcome' = "video_missing"
    /\ UNCHANGED <<ffmpeg_invoked, audio_exists, completed>>
    /\ UNCHANGED segVars

\* Lines 46-110: step 1, ffmpeg.  result: returncode 0, returncode != 0,
\* FileNotFoundError (the tool never started), or another exception (for
\* one, decoding the captured output can raise after the tool ran).  A
\* failing tool may have created the output file before it failed.
ExtractAudio ==
    /\ pc = "extract"
    /\ UNCHANGED uiVars
    /\ \E result \in {"ok", "nonzero", "not_found", "exception"},
          created \in BOOLEAN, ran \in BOOLEAN :
          \/ /\ result = "ok" /\ created /\ ran
             /\ ffmpeg_invoked' = TRUE
             /\ audio_exists' = TRUE
             /\ completed' = completed \cup {1}
             /\ pc' = "transcribe"
             /\ outcome' = outcome
          \/ /\ result = "nonzero" /\ ran
             /\ ffmpeg_invoked' = TRUE
             /\ audio_exists' = (audio_exists \/ created)
             /\ pc' = "done"
             /\ outcome' = "extraction_failed"
             /\ UNCHANGED completed
          \/ /\ result = "not_found" /\ ~created /\ ~ran
             /\ ffmpeg_invoked' = FALSE
             /\ audio_exists' = audio_exists
             /\ pc' = "done"
             /\ outcome' = "ffmpeg_not_found"
             /\ UNCHANGED completed
          \/ /\ result = "exception" /\ (created => ran)
             /\ ffmpeg_invoked' = ran
             /\ audio_exists' = (audio_exists \/ created)
             /\ pc' = "done"
             /\ outcome' = "extraction_error"
             /\ UNCHANGED completed
    /\ UNCHANGED segVars

\* Lines 113-150: step 2, the transcription call, with its except and its
\* finally (the temporary audio file is removed when it exists; os.remove
\* itself is taken to succeed).
TranscribeFrom(transcripts) ==
    /\ pc = "transcribe"
    /\ UNCHANGED uiVars
    /\ \E result \in {"ok", "error_status", "exception"}, ws \in transcripts :
          /\ \/ /\ result = "ok"
                /\ words' = ws
                /\ completed' = completed \cup {2}
                /\ outcome' = outcome
             \/ /\ result = "error_status" /\ ws = <<>>
                /\ outcome' = "transcription_failed"
                /\ UNCHANGED <<words, completed>>
             \/ /\ result = "exception" /\ ws = <<>>
                /\ outcome' = "transcription_error"
                /\ UNCHANGED <<words, completed>>
          /\ pc' = AfterTranscribe(result)
    /\ audio_exists' = FALSE
    /\ UNCHANGED <<ffmpeg_invoked, srt_opened, srt_file, emitted, srt_counter,
                   current_block_words, i, blocks_reported, success_shown>>

Transcribe == TranscribeFrom(Transcripts)

\* Lines 153-164: step 3 begins: the counter, open(srt_path, 'w'), the
\* empty-transcript test.  open can raise (line 221 catches it).
OpenSrt ==
    /\ pc = "generate"
    /\ UNCHANGED uiVars
    /\ \E open_ok \in BOOLEAN :
          IF open_ok
          THEN /\ srt_opened' = TRUE
               /\ srt_file' = <<>>
               /\ pc' = IF words # <<>> THEN "loop" ELSE "report"
               /\ outcome' = outcome
          ELSE /\ UNCHANGED <<srt_opened, srt_file>>
               /\ pc' = "done"
               /\ outcome' = "unexpected_error"
    /\ srt_counter' = 1
    /\ current_block_words' = <<>>
    /\ i' = 1
    /\ UNCHANGED <<ffmpeg_invoked, audio_exists, completed, words, emitted,
                   blocks_reported, success_shown>>

\* Lines 166-200: one iteration of the loop over transcript.words.
LoopStep ==
    /\ pc = "loop"
    /\ i <= Len(words)
    /\ UNCHANGED uiVars
    /\ LET word == words[i] IN
          IF current_block_words = <<>>
          THEN /\ current_block_words' = <<word>>
               /\ UNCHANGED <<srt_file, emitted, srt_counter>>
          ELSE /\ IF should_start_new_block(current_block_words, word)
                  THEN /\ srt_file' = Append(srt_file,
                                  SrtBlock(srt_counter, current_block_words))
                       /\ emitted' = Append(emitted, current_block_words)
                       /\ srt_counter' = srt_counter + 1
                  ELSE UNCHANGED <<srt_file, emitted, srt_counter>>
               /\ current_block_words' =
                      NextBlockWords(current_block_words, word)
    /\ i' = i + 1
    /\ UNCHANGED <<pc, outcome, ffmpeg_invoked, audio_exists, completed, words,
                   srt_opened, blocks_reported, success_shown>>

\* Lines 202-210: the loop is over; the open block is written.
FinalBlock ==
    /\ pc = "loop"
    /\ i > Len(words)
    /\ UNCHANGED uiVars
    /\ IF current_block_words # <<>>
       THEN /\ srt_file' = Append(srt_file,
                                  SrtBlock(srt_counter, current_block_words))
            /\ emitted' = Append(emitted, current_block_words)
            /\ srt_counter' = srt_counter + 1
       ELSE UNCHANGED <<srt_file, emitted, srt_counter>>
    /\ pc' = "report"
    /\ UNCHANGED <<outcome, ffmpeg_invoked, audio_exists, completed, words,
                   srt_opened, current_block_words, i, success_shown,
                   blocks_reported>>

\* Lines 212-219: the block count is logged and the success box shown.
Report ==
    /\ pc = "report"
    /\ UNCHANGED uiVars
    /\ blocks_reported' = srt_counter - 1
    /\ completed' = completed \cup {3}
    /\ success_shown' = TRUE
    /\ pc' = "done"
    /\ outcome' = "success"
    /\ UNCHANGED <<ffmpeg_invoked, audio_exists, words, srt_opened, srt_file,
                   emitted, srt_counter, current_block_words, i>>

Next ==
    \/ CheckVideo
    \/ ExtractAudio
    \/ Transcribe
    \/ OpenSrt
    \/ LoopStep
    \/ FinalBlock
    \/ Report

Spec == Init /\ [][Next]_vars

\* ---------------------------------------------------------- user interface

\* After construction: no job, the button enabled, the progress bar not
\* shown (lines 275-280).
UiInit ==
    /\ pc = "idle"
    /\ outcome = "none"
    /\ audio_exists = FALSE
    /\ JobLocalsInit
    /\ start_button = "normal"
    /\ progress_shown = FALSE
    /\ progress_running = FALSE
    /\ jobs = 0
    /\ fin_stop = 0
    /\ fin_forget = 0

\* The state start_processing_thread gives the button (line 392).
ButtonStateWhileProcessing == "disabled"

\* Variant: the finally leaves the button as it is.
ButtonStateAfterJob_StillDisabled == "disabled"

\* The state the finally of run_transcription gives the button (line 422).
ButtonStateAfterJob == "normal"

\* Lines 380-410: a click on the start button.  The button runs its command
\* (line 275) only in state "normal".  With an empty field a warning is
\* shown and nothing changes; otherwise the button is disabled, the
\* progress bar shown and started, the log cleared, and a thread started
\* that enters create_speaker_srt with fresh locals.
StartProcessing ==
    /\ start_button = "normal"
    /\ jobs + fin_stop + fin_forget < MaxThreads
    /\ \E fields_filled \in BOOLEAN :
          IF fields_filled
          THEN /\ start_button' = ButtonStateWhileProcessing
               /\ progress_shown' = TRUE
               /\ progress_running' = TRUE
               /\ jobs' = jobs + 1
               /\ pc' = "start"
               /\ outcome' = "none"
               /\ ffmpeg_invoked' = FALSE
               /\ completed' = {}
               /\ words' = <<>>
               /\ srt_opened' = FALSE
               /\ srt_file' = <<>>
               /\ emitted' = <<>>
               /\ srt_counter' = 0
               /\ current_block_words' = <<>>
               /\ i' = 0
               /\ blocks_reported' = -1
               /\ success_shown' = FALSE
               /\ UNCHANGED <<audio_exists, fin_stop, fin_forget>>
          ELSE UNCHANGED vars

\* Lines 418-422: create_speaker_srt has returned (its locals are gone; what
\* it logged stays in the log box) and the finally re-enables the button.
EnableButton ==
    /\ pc = "done"
    /\ start_button' = ButtonStateAfterJob
    /\ jobs' = jobs - 1
    /\ fin_stop' = fin_stop + 1
    /\ pc' = "idle"
    /\ ffmpeg_invoked' = FALSE
    /\ completed' = {}
    /\ words' = <<>>
    /\ srt_opened' = FALSE
    /\ srt_file' = <<>>
    /\ emitted' = <<>>
    /\ srt_counter' = 0
    /\ current_block_words' = <<>>
    /\ i' = 0
    /\ blocks_reported' = -1
    /\ success_shown' = FALSE
    /\ UNCHANGED <<outcome, audio_exists, progress_shown, progress_running,
                   fin_forget>>

\* Line 423: progress_bar.stop(), by a thread in its finally.
ProgressStop ==
    /\ fin_stop > 0
    /\ progress_running' = FALSE
    /\ fin_stop' = fin_stop - 1
    /\ fin_forget' = fin_forget + 1
    /\ UNCHANGED <<pc, outcome, ffmpeg_invoked, audio_exists, completed, words,
                   start_button, progress_shown, jobs>>
    /\ UNCHANGED <<srt_opened, srt_file, emitted, srt_counter,
                   current_block_words, i, blocks_reported, success_shown>>

\* Line 424: progress_bar.grid_forget(); the thread ends.
ProgressForget ==
    /\ fin_forget > 0
    /\ progress_shown' = FALSE
    /\ fin_forget' = fin_forget - 1
    /\ UNCHANGED <<pc, outcome, ffmpeg_invoked, audio_exists, completed, words,
                   start_button, progress_running, jobs, fin_stop>>
    /\ UNCHANGED <<srt_opened, srt_file, emitted, srt_counter,
                   current_block_words, i, blocks_reported, success_shown>>

UiTranscribe == TranscribeFrom(WordSeqs(MaxUiWords))

\* A step of a background thread.
ThreadStep ==
    \/ CheckVideo
    \/ ExtractAudio
    \/ UiTranscribe
    \/ OpenSrt
    \/ LoopStep
    \/ FinalBlock
    \/ Report
    \/ EnableButton
    \/ ProgressStop
    \/ ProgressForget

UiNext ==
    \/ StartProcessing
    \/ CheckVideo
    \/ ExtractAudio
    \/ UiTranscribe
    \/ OpenSrt
    \/ LoopStep
    \/ FinalBlock
    \/ Report
    \/ EnableButton
    \/ ProgressStop
    \/ ProgressForget

\* The application: the user clicks when they like; a started thread keeps
\* running (every call it makes returns or raises).
UiSpec == UiInit /\ [][UiNext]_vars /\ WF_vars(ThreadStep)

\* ------------------------------------------------------------- properties

CueStart(block) == block[1].start

CueEnd(block) == block[Len(block)].end

RECURSIVE Flatten(_)
Flatten(blocks) ==
    IF blocks = <<>> THEN <<>> ELSE blocks[1] \o Flatten(Tail(blocks))

\* The word groups the loop has formed: those written, and the open one
\* while the loop runs.
Groups ==
    {emitted[k] : k \in 1..Len(emitted)}
        \cup (IF pc = "loop" /\ current_block_words # <<>>
              THEN {current_block_words} ELSE {})

TypeOK ==
    /\ pc \in {"idle", "start", "extract", "transcribe", "generate", "loop",
               "report", "done"}
    /\ outcome \in {"none", "video_missing", "extraction_failed",
                    "ffmpeg_not_found", "extraction_error",
                    "transcription_failed", "transcription_error",
                    "unexpected_error", "success"}
    /\ completed \subseteq {1, 2, 3}
    /\ Len(srt_file) = Len(emitted)
    /\ i \in 0..(Len(words) + 1)

\* C1 as stated: adjacent cues never overlap, for every transcript whose
\* words have end >= start >= 0 and non-decreasing starts (every transcript
\* the model draws): c_k.end <= c_{k+1}.start.
C1_CuesNeverOverlap ==
    \A k \in 1..(Len(emitted) - 1) :
        CueEnd(emitted[k]) <= CueStart(emitted[k + 1])

\* Consecutive words of the transcript do not overlap in time.
WordsDisjoint ==
    \A k \in 1..(Len(words) - 1) : words[k].end <= words[k + 1].start

\* C1 amended: when, in addition, each word ends no later than the next
\* word starts, adjacent cues satisfy c_k.end <= c_{k+1}.start.
C1_CuesDisjointForDisjointWords ==
    WordsDisjoint =>
        \A k \in 1..(Len(emitted) - 1) :
            CueEnd(emitted[k]) <= CueStart(emitted[k + 1])

\* Two cues written from a transcript of disjoint words, the first of them
\* lasting some time.
C1_Witness ==
    /\ WordsDisjoint
    /\ Len(emitted) >= 2
    /\ CueEnd(emitted[1]) > CueStart(emitted[1])

\* C2: whenever create_speaker_srt has returned after the extraction tool
\* was invoked, the temporary audio file no longer exists.
C2_TempAudioRemoved ==
    (pc = "done" /\ ffmpeg_invoked) => ~audio_exists

\* C3: the cues partition the words: every written cue holds a word; while
\* the loop runs the written groups followed by the open group are the words
\* consumed so far, in order; once the loop is over the written groups are
\* the whole transcript (none for an empty one); and the text written for a
\* cue is its group's texts joined.
C3_WordsPartitioned ==
    /\ \A k \in 1..Len(emitted) : emitted[k] # <<>>
    /\ Len(srt_file) = Len(emitted)
    /\ \A k \in 1..Len(srt_file) : srt_file[k].text = JoinText(emitted[k])
    /\ pc = "loop" =>
          Flatten(emitted) \o current_block_words = SubSeq(words, 1, i - 1)
    /\ (pc = "report" \/ outcome = "success") =>
          /\ Flatten(emitted) = words
          /\ words = <<>> => srt_file = <<>>

\* A finished run over a full-length transcript with a cue of several words
\* and a break.
C3_Witness ==
    /\ outcome = "success"
    /\ Len(words) = MaxWords
    /\ Len(emitted) >= 2
    /\ \E k \in 1..Len(emitted) : Len(emitted[k]) >= 2

\* C4: the text of a cue of two or more words is at most 80 characters, and
\* a word longer than 80 characters is alone in its cue.
C4_CharBudget ==
    \A k \in 1..Len(srt_file) :
        /\ Len(emitted[k]) >= 2 => Len(srt_file[k].text) <= MAX_CHARS
        /\ \A j \in 1..Len(emitted[k]) :
              Len(emitted[k][j].text) > MAX_CHARS => Len(emitted[k]) = 1

\* A cue of several words and a cue longer than 80 characters in one file.
C4_Witness ==
    /\ \E k \in 1..Len(srt_file) : Len(emitted[k]) >= 2
    /\ \E k \in 1..Len(srt_file) : Len(srt_file[k].text) > MAX_CHARS

\* C5: in every group, each word after the first ends less than 7000 ms
\* after the first word starts.
C5_DurationBudget ==
    \A g \in Groups :
        \A j \in 2..Len(g) : g[j].end - g[1].start < MAX_DURATION_S * 1000

\* A cue of several words closed by the duration trigger alone.
C5_Witness ==
    \E k \in 1..(Len(emitted) - 1) :
        LET g == emitted[k]
            w == emitted[k + 1][1]
        IN  /\ Len(g) >= 2
            /\ w.end - g[1].start >= MAX_DURATION_S * 1000
            /\ w.start - g[Len(g)].end < MAX_PAUSE_MS
            /\ Len(JoinText(g)) + 1 + Len(w.text) <= MAX_CHARS

\* C6: two consecutive words of one group are less than 700 ms apart.
C6_PauseBound ==
    \A g \in Groups :
        \A j \in 1..(Len(g) - 1) : g[j + 1].start - g[j].end < MAX_PAUSE_MS

\* A cue of several words closed by a pause of exactly 700 ms.
C6_Witness ==
    \E k \in 1..(Len(emitted) - 1) :
        /\ Len(emitted[k]) >= 2
        /\ emitted[k + 1][1].start - CueEnd(emitted[k]) = MAX_PAUSE_MS

\* C7: the indexes written are 1, 2, ..., N in order, and the count logged
\* at the end is N (0 for an empty transcript).
C7_IndexContiguity ==
    /\ \A k \in 1..Len(srt_file) : srt_file[k].index = k
    /\ blocks_reported # -1 =>
          /\ blocks_reported = Len(srt_file)
          /\ words = <<>> => blocks_reported = 0

\* Three cues written and counted.
C7_Witness ==
    /\ blocks_reported = 3
    /\ Len(srt_file) = 3

UpstreamFailure ==
    outcome \in {"video_missing", "extraction_failed", "ffmpeg_not_found",
                 "extraction_error", "transcription_failed",
                 "transcription_error"}

\* C8: after a missing video, a failed extraction or a failed transcription
\* the SRT file is never opened, no cue is written and no success is shown;
\* the SRT file is opened only with steps 1 and 2 complete.
C8_NoSrtAfterFailure ==
    /\ UpstreamFailure =>
          /\ ~srt_opened
          /\ srt_file = <<>>
          /\ emitted = <<>>
          /\ ~success_shown
          /\ blocks_reported = -1
    /\ (srt_opened \/ success_shown) => {1, 2} \subseteq completed

\* A run that extracted the audio and then failed to transcribe it.
C8_Witness ==
    /\ pc = "done"
    /\ outcome = "transcription_failed"
    /\ 1 \in completed

\* HH:MM:SS,mmm of a whole number m of milliseconds, by integer arithmetic.
ExactSrtTime(m) ==
    Pad2(m \div 3600000) \o ":" \o Pad2((m \div 60000) % 60) \o ":"
        \o Pad2((m \div 1000) % 60) \o "," \o Pad3(m % 1000)

\* C9: the timestamps written for a cue are its first word's start and its
\* last word's end, to the millisecond.
C9_TimestampsExact ==
    \A k \in 1..Len(srt_file) :
        /\ srt_file[k].start_time = ExactSrtTime(CueStart(emitted[k]))
        /\ srt_file[k].end_time = ExactSrtTime(CueEnd(emitted[k]))

\* The word w fires one of the three triggers against the group g.
HasCause(g, w) ==
    \/ w.start - g[Len(g)].end >= 700
    \/ Len(JoinText(g)) + 1 + Len(w.text) > 80
    \/ w.end - g[1].start >= 7000

\* C10: the first word of every cue after the first (and of the open group
\* after a written cue) fires a trigger against the whole cue before it.
C10_BreakOnlyWithCause ==
    /\ \A k \in 1..(Len(emitted) - 1) :
          HasCause(emitted[k], emitted[k + 1][1])
    /\ (pc = "loop" /\ emitted # <<>> /\ current_block_words # <<>>) =>
          HasCause(emitted[Len(emitted)], current_block_words[1])

\* A word appended to the open group, and later a break.
C10_Witness ==
    /\ Len(emitted) >= 2
    /\ Len(emitted[1]) >= 2
    /\ pc = "done"

\* C11: after a job has started, the button is enabled again, and the
\* progress bar stopped and hidden, whatever the outcome; no job starts while
\* the button is disabled; at most one job runs at a time; and with no
\* thread left the interface is idle.
C11_UiReturnsToIdle ==
    /\ (start_button = "disabled") ~> (start_button = "normal")
    /\ (jobs > 0) ~> ~progress_running
    /\ (jobs > 0) ~> ~progress_shown
    /\ [][start_button = "disabled" => jobs' <= jobs]_vars
    /\ [](jobs <= 1)
    /\ [](start_button = "disabled" <=> jobs = 1)
    /\ [](jobs + fin_stop + fin_forget = 0 =>
              /\ start_button = "normal"
              /\ ~progress_running
              /\ ~progress_shown)

\* A job has run to an end and the interface is idle again.
C11_Witness ==
    /\ outcome \in {"success", "video_missing", "extraction_failed",
                    "transcription_failed", "unexpected_error"}
    /\ jobs + fin_stop + fin_forget = 0
    /\ start_button = "normal"
    /\ ~progress_shown

=============================================================================
